---- MODULE Spec2Model ----
(***************************************************************************)
(* Model of generate_dashboard.py: the daily reducer (process_activities)  *)
(* and the calendar window aggregator (aggregate_data).                    *)
(*                                                                         *)
(* Numeric measures are kept in half units (the value h stands for h/2),   *)
(* so that sums stay exact and round() has ties to resolve.                *)
(* A date object is a record [tp, year, month, day]; tp is the Python type *)
(* of the object ("date" or "datetime").  A formatted label is the tuple   *)
(* of its zero-padded fields: <<y, m>> for "%Y-%m", <<y, m, d>> for        *)
(* "%Y-%m-%d".  A dict is the sequence of its [k, v] items in insertion    *)
(* order.                                                                  *)
(***************************************************************************)
EXTENDS Integers, Sequences, FiniteSets, TLC

VARIABLES activities, today, pc, idx, daily_elevation, filtered_count,
          warnings, aggregates, raised, second,
          after_timestamp, page, response, requested, received

\* The state of the main program's fetch: the lookback timestamp, the page
\* counter and the response variable of get_strava_activities, the page
\* numbers requested so far and the pages received so far
fetch_vars == <<after_timestamp, page, response, requested, received>>

vars == <<activities, today, pc, idx, daily_elevation, filtered_count,
          warnings, aggregates, raised, second, fetch_vars>>

\* Longest activity list the model feeds to process_activities.
MaxActs == 2

\* Number of non-empty pages the server can hold.
MaxPages == 2

----------------------------------------------------------------------------
\* Calendar arithmetic of datetime.date / calendar

IsLeap(y) == (y % 4 = 0) /\ ((y % 100 # 0) \/ (y % 400 = 0))

\* calendar.monthrange(y, m)[1]
DaysInMonth(y, m) ==
    IF m = 2 THEN (IF IsLeap(y) THEN 29 ELSE 28)
    ELSE IF m \in {4, 6, 9, 11} THEN 30 ELSE 31

DaysBeforeYear(y) ==
    LET p == y - 1 IN p * 365 + (p \div 4) - (p \div 100) + (p \div 400)

DaysBeforeMonth(y, m) ==
    <<0, 31, 59, 90, 120, 151, 181, 212, 243, 273, 304, 334>>[m]
    + (IF m > 2 /\ IsLeap(y) THEN 1 ELSE 0)

\* date(y, m, d)
Date(y, m, d) == [tp |-> "date", year |-> y, month |-> m, day |-> d]

\* x.toordinal(): days since 0001-01-01, that day being 1
ToOrdinal(x) == DaysBeforeYear(x.year) + DaysBeforeMonth(x.year, x.month) + x.day

\* date.fromordinal(n)
FromOrdinal(n) ==
    LET c == ((n - 1) \div 365) + 1
        y == CHOOSE yy \in (c - 3)..c :
                 DaysBeforeYear(yy) < n /\ n <= DaysBeforeYear(yy + 1)
        r == n - DaysBeforeYear(y)
        m == CHOOSE mm \in 1..12 :
                 DaysBeforeMonth(y, mm) < r
                 /\ r <= DaysBeforeMonth(y, mm) + DaysInMonth(y, mm)
    IN Date(y, m, r - DaysBeforeMonth(y, m))

\* x - timedelta(days=n) and x + timedelta(days=n); the type of x is kept
MinusDays(x, n) == [FromOrdinal(ToOrdinal(x) - n) EXCEPT !.tp = x.tp]
PlusDays(x, n) == [FromOrdinal(ToOrdinal(x) + n) EXCEPT !.tp = x.tp]

\* x.replace(day=1)
ReplaceDay1(x) == [x EXCEPT !.day = 1]

\* x.weekday(): Monday is 0
Weekday(x) == (ToOrdinal(x) + 6) % 7

\* a <= b, a < b on dates
DateLE(a, b) == ToOrdinal(a) <= ToOrdinal(b)
DateLT(a, b) == ToOrdinal(a) < ToOrdinal(b)

\* An exception value
Exc(name) == [tp |-> name]
IsExc(x) == x.tp \in {"AttributeError", "KeyError", "TypeError", "ValueError"}

\* x.date(): only datetime objects have the method
DateMethod(x) ==
    IF x.tp = "datetime" THEN [x EXCEPT !.tp = "date"]
    ELSE Exc("AttributeError")

\* x.strftime("%Y-%m") and x.strftime("%Y-%m-%d")
StrfYM(x) == <<x.year, x.month>>
StrfYMD(x) == <<x.year, x.month, x.day>>

\* round(h/2): Python rounds a tie to the even integer
PyRound(h) ==
    IF h % 2 = 0 THEN h \div 2
    ELSE LET k == (h - 1) \div 2 IN IF k % 2 = 0 THEN k ELSE k + 1

----------------------------------------------------------------------------
\* Dicts

\* d.get(k, 0) on a dict kept as a function
Get(d, k) == IF k \in DOMAIN d THEN d[k] ELSE 0

\* d[k] = v on a dict kept as a function
Put(d, k, v) == [x \in (DOMAIN d) \cup {k} |-> IF x = k THEN v ELSE d[x]]

EmptyDict == [x \in {} |-> 0]

----------------------------------------------------------------------------
\* process_activities

ACTIVITY_TYPES == {"Run", "Walk", "Hike"}

\* activity['start_date_local'][:10]: the subscript fails on a missing key
StartDateLocal(activity) ==
    IF activity.start_date_local.k = "missing" THEN Exc("KeyError")
    ELSE [tp |-> "str", year |-> activity.start_date_local.year,
          month |-> activity.start_date_local.month,
          day |-> activity.start_date_local.day]

\* datetime.strptime(s, "%Y-%m-%d").date()
Strptime(s) ==
    IF s.month \in 1..12 /\ s.day \in 1..DaysInMonth(s.year, s.month)
    THEN Date(s.year, s.month, s.day)
    ELSE Exc("ValueError")

\* activity.get('total_elevation_gain', 0)
GetElevationGain(activity) ==
    IF activity.total_elevation_gain.k = "absent" THEN [k |-> "num", h |-> 0]
    ELSE activity.total_elevation_gain

\* A float() that takes every value it cannot convert as 0
PyFloatDefaultsToZero(v) ==
    IF v.k \in {"num", "numstr"} THEN [tp |-> "float", h |-> v.h]
    ELSE [tp |-> "float", h |-> 0]

\* float(v): numbers and numeric strings convert, None and other strings raise
PyFloat(v) ==
    IF v.k \in {"num", "numstr"} THEN [tp |-> "float", h |-> v.h]
    ELSE IF v.k = "none" THEN Exc("TypeError")
    ELSE Exc("ValueError")

\* A try block that assigns the day's bucket instead of adding to it
TryBlockOverwrites(d, activity) ==
    LET activity_date_str == StartDateLocal(activity)
        skip == [daily |-> d, warned |-> TRUE]
    IN IF IsExc(activity_date_str) THEN skip
       ELSE LET activity_date == Strptime(activity_date_str)
            IN IF IsExc(activity_date) THEN skip
               ELSE LET elevation_gain == PyFloat(GetElevationGain(activity))
                    IN IF IsExc(elevation_gain) THEN skip
                       ELSE [daily |-> Put(d, activity_date, elevation_gain.h),
                             warned |-> FALSE]

\* The try block of the loop body: the new daily_elevation, and whether the
\* except branch printed its warning.
TryBlock(d, activity) ==
    LET activity_date_str == StartDateLocal(activity)
        skip == [daily |-> d, warned |-> TRUE]
    IN IF IsExc(activity_date_str) THEN skip
       ELSE LET activity_date == Strptime(activity_date_str)
            IN IF IsExc(activity_date) THEN skip
               ELSE LET elevation_gain == PyFloat(GetElevationGain(activity))
                    IN IF IsExc(elevation_gain) THEN skip
                       ELSE [daily |-> Put(d, activity_date,
                                           Get(d, activity_date) + elevation_gain.h),
                             warned |-> FALSE]

\* One iteration of "for activity in activities"
ProcessActivity ==
    /\ pc = "process"
    /\ idx < Len(activities)
    /\ LET activity == activities[idx + 1]
       IN IF activity.type \in ACTIVITY_TYPES
          THEN LET r == TryBlock(daily_elevation, activity)
               IN /\ filtered_count' = filtered_count + 1
                  /\ daily_elevation' = r.daily
                  /\ warnings' = warnings + (IF r.warned THEN 1 ELSE 0)
          ELSE UNCHANGED <<filtered_count, daily_elevation, warnings>>
    /\ idx' = idx + 1
    /\ UNCHANGED <<activities, today, pc, aggregates, raised, second, fetch_vars>>

\* The loop is exhausted: return daily_elevation
ProcessReturn ==
    /\ pc = "process"
    /\ idx = Len(activities)
    /\ pc' = "aggregate"
    /\ UNCHANGED <<activities, today, idx, daily_elevation, filtered_count,
                   warnings, aggregates, raised, second, fetch_vars>>

----------------------------------------------------------------------------
\* aggregate_data

\* d[k] = v on a dict kept as its items in insertion order
SetItem(items, k, v) ==
    IF \E i \in 1..Len(items) : items[i].k = k
    THEN [i \in 1..Len(items) |->
             IF items[i].k = k THEN [k |-> k, v |-> v] ELSE items[i]]
    ELSE Append(items, [k |-> k, v |-> v])

\* a < b on "%Y-%m" labels (zero-padded strings compare field by field)
LabelLT(a, b) == a[1] < b[1] \/ (a[1] = b[1] /\ a[2] < b[2])

\* sorted(d.keys()) on month labels
RECURSIVE SortedKeys(_)
SortedKeys(items) ==
    IF Len(items) = 0 THEN <<>>
    ELSE LET least == CHOOSE i \in 1..Len(items) :
                          \A j \in 1..Len(items) : ~LabelLT(items[j].k, items[i].k)
             rest == [j \in 1..(Len(items) - 1) |->
                         IF j < least THEN items[j] ELSE items[j + 1]]
         IN <<items[least].k>> \o SortedKeys(rest)

\* keys[-12:]
Last12(keys) ==
    IF Len(keys) <= 12 THEN keys ELSE SubSeq(keys, Len(keys) - 11, Len(keys))

\* the position of key k among the items of a dict
ItemIndex(items, k) == (CHOOSE i \in 1..Len(items) : items[i].k = k)

\* (x.replace(day=1) - timedelta(days=1)).replace(day=1)
PrevMonthStart(x) == ReplaceDay1(MinusDays(ReplaceDay1(x), 1))

\* lines 162-164: current_date after n steps back (one, then range(11)).
\* Here and in the loops below the previous loop state is bound to a
\* variable, which makes the evaluation take it as a value.
RECURSIVE BackMonths(_, _)
BackMonths(x, n) ==
    IF n = 0 THEN x
    ELSE CHOOSE r \in {PrevMonthStart(prev) : prev \in {BackMonths(x, n - 1)}} : TRUE

\* The number of iterations of "while current_day <= last" from first
LoopCount(first, last) ==
    IF DateLE(first, last) THEN ToOrdinal(last) - ToOrdinal(first) + 1 ELSE 0

\* lines 175-179: what iterations lo..hi of the day loop of the month starting
\* at month_start add to total_gain, days after today left out.  The range
\* is split in halves to keep the evaluation shallow.
RECURSIVE MonthGain(_, _, _, _, _)
MonthGain(daily, td, month_start, lo, hi) ==
    IF lo > hi THEN 0
    ELSE IF lo = hi
         THEN LET current_day == PlusDays(month_start, lo - 1)
              IN IF DateLE(current_day, td) THEN Get(daily, current_day) ELSE 0
         ELSE LET mid == (lo + hi) \div 2
              IN MonthGain(daily, td, month_start, lo, mid)
                 + MonthGain(daily, td, month_start, mid + 1, hi)

\* line 184: (today.replace(day=1) - timedelta(days=365*1.1)).replace(day=1);
\* date arithmetic uses the whole days of the timedelta, 401
ApproxFilterStart(td) == ReplaceDay1(MinusDays(ReplaceDay1(td), 401))

\* lines 168-189: the body of "for i in range(13)", from the loop state
\* [current_date, monthly_histogram] to the next
MonthStep(daily, td, st) ==
    LET current_date == st.current_date
        month_start == Date(current_date.year, current_date.month, 1)
        month_end_day == DaysInMonth(current_date.year, current_date.month)
        month_end == Date(current_date.year, current_date.month, month_end_day)
        month_str == StrfYM(month_start)
        total_gain == MonthGain(daily, td, month_start, 1,
                                LoopCount(month_start, month_end))
        first_day_current_month == Date(td.year, td.month, 1)
        keep == /\ total_gain > 0 \/ DateLT(month_start, first_day_current_month)
                /\ DateLE(ApproxFilterStart(td), month_start)
        next_month_day_one == ReplaceDay1(PlusDays(month_end, 1))
    IN [current_date |-> next_month_day_one,
        monthly_histogram |->
            IF keep
            THEN SetItem(st.monthly_histogram, month_str, PyRound(total_gain))
            ELSE st.monthly_histogram]

\* lines 167-189: the loop state after i iterations of "for i in range(13)"
RECURSIVE MonthLoop(_, _, _, _)
MonthLoop(daily, td, start_date, i) ==
    IF i = 0 THEN [current_date |-> start_date, monthly_histogram |-> <<>>]
    ELSE CHOOSE r \in {MonthStep(daily, td, st) :
                        st \in {MonthLoop(daily, td, start_date, i - 1)}} : TRUE

\* lines 159-195: hist_year_month
HistYearMonth(daily, td, first_day_last_month_dt) ==
    LET current_date == BackMonths(first_day_last_month_dt, 12)
        monthly_histogram == MonthLoop(daily, td, current_date, 13).monthly_histogram
        sorted_months == Last12(SortedKeys(monthly_histogram))
    IN [i \in 1..Len(sorted_months) |->
           [k |-> sorted_months[i],
            v |-> monthly_histogram[ItemIndex(monthly_histogram, sorted_months[i])].v]]

\* lines 200-207: hist_last_month_day, one item per iteration of the loop
DailyHist(daily, first_day, last_day) ==
    [i \in 1..LoopCount(first_day, last_day) |->
        LET current_day == PlusDays(first_day, i - 1)
        IN [k |-> StrfYMD(current_day), v |-> PyRound(Get(daily, current_day))]]

\* What iterations lo..hi of a running-total loop from first_day add to
\* running_total (split in halves as in MonthGain)
RECURSIVE RunningTotal(_, _, _, _)
RunningTotal(daily, first_day, lo, hi) ==
    IF lo > hi THEN 0
    ELSE IF lo = hi THEN Get(daily, PlusDays(first_day, lo - 1))
    ELSE LET mid == (lo + hi) \div 2
         IN RunningTotal(daily, first_day, lo, mid)
            + RunningTotal(daily, first_day, mid + 1, hi)

\* lines 212-232: cumul_year and cumul_month, one item per iteration
Cumulative(daily, first_day, td) ==
    [i \in 1..LoopCount(first_day, td) |->
        [k |-> StrfYMD(PlusDays(first_day, i - 1)),
         v |-> PyRound(RunningTotal(daily, first_day, 1, i))]]

\* lines 238-243: the body of the cumul_week loop on iteration i, from the
\* loop state [running_total, cumulative_week] to the next
WeekStep(daily, start_of_week, i, st) ==
    LET current_day == PlusDays(start_of_week, i - 1)
        total == st.running_total + Get(daily, current_day)
    IN IF DateLE(start_of_week, current_day)
       THEN [running_total |-> total,
             cumulative_week |->
                 SetItem(st.cumulative_week, StrfYMD(current_day), PyRound(total))]
       ELSE st

\* lines 235-244: the loop state after i iterations of the cumul_week loop
RECURSIVE WeekLoop(_, _, _)
WeekLoop(daily, start_of_week, i) ==
    IF i = 0 THEN [running_total |-> 0, cumulative_week |-> <<>>]
    ELSE CHOOSE r \in {WeekStep(daily, start_of_week, i, st) :
                        st \in {WeekLoop(daily, start_of_week, i - 1)}} : TRUE

\* lines 235-244: cumul_week
CumulativeWeek(daily, start_of_week, td) ==
    WeekLoop(daily, start_of_week, LoopCount(start_of_week, td)).cumulative_week

\* aggregate_data(daily_elevation, today): the exception it ends with, or
\* "none" and the dict it returns
aggregate_data(daily, td) ==
    LET first_day_current_year == Date(td.year, 1, 1)
        first_day_current_month == Date(td.year, td.month, 1)
        first_day_last_month_dt == ReplaceDay1(MinusDays(first_day_current_month, 1))
        first_day_last_month == DateMethod(first_day_last_month_dt)
        last_day_last_month == MinusDays(first_day_current_month, 1)
        start_of_week == MinusDays(td, Weekday(td))
    IN IF IsExc(first_day_last_month)
       THEN [raised |-> first_day_last_month.tp, aggregates |-> <<>>]
       ELSE [raised |-> "none",
             aggregates |->
               [hist_year_month |-> HistYearMonth(daily, td, first_day_last_month_dt),
                hist_last_month_day |->
                    DailyHist(daily, first_day_last_month, last_day_last_month),
                cumul_year |-> Cumulative(daily, first_day_current_year, td),
                cumul_month |-> Cumulative(daily, first_day_current_month, td),
                cumul_week |-> CumulativeWeek(daily, start_of_week, td)]]

\* The call aggregate_data(daily_elevation_data, today)
AggregateData ==
    /\ pc = "aggregate"
    /\ LET r == aggregate_data(daily_elevation, today)
       IN /\ raised' = r.raised
          /\ aggregates' = r.aggregates
    /\ pc' = "done"
    /\ UNCHANGED <<activities, today, idx, daily_elevation, filtered_count, warnings,
                   second, fetch_vars>>

\* The result of a call that has not been made
NotCalled == [raised |-> "not called", aggregates |-> <<>>]

\* A second call aggregate_data(daily_elevation, today) with the arguments of
\* the first
AggregateDataAgain ==
    /\ pc = "done"
    /\ second' = aggregate_data(daily_elevation, today)
    /\ pc' = "done2"
    /\ UNCHANGED <<activities, today, idx, daily_elevation, filtered_count, warnings,
                   aggregates, raised, fetch_vars>>

----------------------------------------------------------------------------
\* Inputs

\* Raw 'type' values: two accepted categories and one that is not
RawTypes == {"Run", "Hike", "Ride"}

\* Raw 'start_date_local' values: no such key, a string that is no calendar
\* date (February 30), and two days either side of a year boundary
RawDates ==
    {[k |-> "missing", year |-> 0, month |-> 0, day |-> 0],
     [k |-> "str", year |-> 2024, month |-> 2, day |-> 30],
     [k |-> "str", year |-> 2023, month |-> 12, day |-> 31],
     [k |-> "str", year |-> 2024, month |-> 1, day |-> 1]}

\* Raw 'total_elevation_gain' values: no such key, a non-numeric string, and
\* the numbers 0.5 and 1.5
RawGains ==
    {[k |-> "absent", h |-> 0], [k |-> "badstr", h |-> 0],
     [k |-> "num", h |-> 1], [k |-> "num", h |-> 3]}

ActivityRecords ==
    [type : RawTypes, start_date_local : RawDates, total_elevation_gain : RawGains]

\* Reference dates: a Monday that is January 1 of a leap year, a leap day,
\* and a mid-year Saturday
Todays == {Date(2024, 1, 1), Date(2024, 2, 29), Date(2024, 6, 15)}

ActivityLists == UNION {[1..n -> ActivityRecords] : n \in 0..MaxActs}

Init ==
    /\ activities \in ActivityLists
    /\ today \in Todays
    /\ pc = "process"
    /\ idx = 0
    /\ daily_elevation = EmptyDict
    /\ filtered_count = 0
    /\ warnings = 0
    /\ aggregates = <<>>
    /\ raised = "none"
    /\ second = NotCalled
    /\ after_timestamp = 0
    /\ page = 1
    /\ response = "unbound"
    /\ requested = <<>>
    /\ received = <<>>

Next == ProcessActivity \/ ProcessReturn \/ AggregateData

Spec == Init /\ [][Next]_vars

\* process_activities, then aggregate_data called twice on its result
NextTwice == Next \/ AggregateDataAgain

SpecTwice == Init /\ [][NextTwice]_vars

----------------------------------------------------------------------------
\* __main__ and get_strava_activities

\* datetime(y, m, d): the constructor rejects a day the month does not have
Datetime(y, m, d) ==
    IF m \in 1..12 /\ d \in 1..DaysInMonth(y, m)
    THEN [tp |-> "datetime", year |-> y, month |-> m, day |-> d]
    ELSE Exc("ValueError")

\* int(x.timestamp()) of a midnight, the clock of the runner being UTC:
\* seconds since 1970-01-01, whose ordinal is 719163
Timestamp(x) == (ToOrdinal(x) - 719163) * 86400

\* datetime.fromtimestamp(t), the day of it
FromTimestamp(t) == [FromOrdinal((t \div 86400) + 719163) EXCEPT !.tp = "datetime"]

\* lines 483-489: today is read, the lookback boundary is one_year_ago_dt
ComputeLookback ==
    /\ pc = "main"
    /\ LET one_year_ago_dt == Datetime(today.year - 1, today.month, today.day)
       IN IF IsExc(one_year_ago_dt)
          THEN /\ raised' = one_year_ago_dt.tp
               /\ pc' = "crashed"
               /\ UNCHANGED after_timestamp
          ELSE /\ after_timestamp' = Timestamp(one_year_ago_dt)
               /\ pc' = "fetch"
               /\ UNCHANGED raised
    /\ UNCHANGED <<activities, today, idx, daily_elevation, filtered_count, warnings,
                   aggregates, second, page, response, requested, received>>

per_page == 100

\* The records the server holds
FetchRecords ==
    {[type |-> "Run",
      start_date_local |-> [k |-> "str", year |-> 2024, month |-> 1, day |-> 1],
      total_elevation_gain |-> [k |-> "num", h |-> 3]],
     [type |-> "Ride",
      start_date_local |-> [k |-> "str", year |-> 2023, month |-> 12, day |-> 31],
      total_elevation_gain |-> [k |-> "num", h |-> 1]]}

\* What one request for page p can meet: requests.get raising (no response
\* object), an error status, a body that is no JSON, an empty page, and,
\* while the server has pages left, a page of one or two records
Responses(p) ==
    {[kind |-> k, items |-> <<>>] : k \in {"conn", "http", "json", "page"}}
    \cup (IF p <= MaxPages
          THEN {[kind |-> "page", items |-> it] :
                   it \in {x \in UNION {[1..n -> FetchRecords] : n \in 1..2} :
                              Len(x) <= per_page}}
          ELSE {})

\* lines 65-102: one iteration of "while True"; an iteration that breaks
\* also returns activities, and the except branch reads response
FetchPage ==
    /\ pc = "fetch"
    /\ requested' = Append(requested, page)
    /\ \E r \in Responses(page) :
          IF r.kind = "conn"
          THEN /\ IF response = "unbound"
                  THEN raised' = "UnboundLocalError" /\ pc' = "crashed"
                  ELSE pc' = "fetched" /\ UNCHANGED raised
               /\ UNCHANGED <<response, activities, received, page>>
          ELSE IF r.kind \in {"http", "json"} \/ r.items = <<>>
          THEN /\ response' = "bound"
               /\ pc' = "fetched"
               /\ UNCHANGED <<raised, activities, received, page>>
          ELSE /\ response' = "bound"
               /\ activities' = activities \o r.items
               /\ received' = Append(received, r.items)
               /\ page' = page + 1
               /\ UNCHANGED <<raised, pc>>
    /\ UNCHANGED <<today, idx, daily_elevation, filtered_count, warnings,
                   aggregates, second, after_timestamp>>

\* line 493: "if all_activities", else nothing is processed
MainBranch ==
    /\ pc = "fetched"
    /\ pc' = IF activities # <<>> THEN "process" ELSE "finished"
    /\ UNCHANGED <<activities, today, idx, daily_elevation, filtered_count, warnings,
                   aggregates, raised, second, fetch_vars>>

InitMain ==
    /\ activities = <<>>
    /\ today \in Todays
    /\ pc = "main"
    /\ idx = 0
    /\ daily_elevation = EmptyDict
    /\ filtered_count = 0
    /\ warnings = 0
    /\ aggregates = <<>>
    /\ raised = "none"
    /\ second = NotCalled
    /\ after_timestamp = 0
    /\ page = 1
    /\ response = "unbound"
    /\ requested = <<>>
    /\ received = <<>>

NextMain ==
    \/ ComputeLookback \/ FetchPage \/ MainBranch
    \/ ProcessActivity \/ ProcessReturn \/ AggregateData

\* The whole run of the main program
SpecMain == InitMain /\ [][NextMain]_vars

----------------------------------------------------------------------------
\* Vocabulary of the properties

SeriesNames ==
    {"hist_year_month", "hist_last_month_day", "cumul_year", "cumul_month",
     "cumul_week"}

\* aggregate_data has ended and left the named series
HasSeries(name) == pc = "done" /\ name \in DOMAIN aggregates

Keys(items) == [i \in 1..Len(items) |-> items[i].k]

\* Months counted from year 0, and back to a "%Y-%m" label
MonthNumber(label) == label[1] * 12 + label[2] - 1
MonthLabel(n) == <<n \div 12, (n % 12) + 1>>

RECURSIVE SumOf(_, _)
SumOf(d, keys) ==
    IF keys = {} THEN 0
    ELSE LET k == CHOOSE kk \in keys : TRUE IN d[k] + SumOf(d, keys \ {k})

\* The sum of the daily totals of the days lo..hi
WindowSum(d, lo, hi) == SumOf(d, {k \in DOMAIN d : DateLE(lo, k) /\ DateLE(k, hi)})

\* One entry per day first..last, valued with the rounded running total
RunningSeries(d, first, last) ==
    [i \in 1..LoopCount(first, last) |->
        [k |-> StrfYMD(PlusDays(first, i - 1)),
         v |-> PyRound(WindowSum(d, first, PlusDays(first, i - 1)))]]

NonDecreasing(items) ==
    /\ \A i \in 1..Len(items) : items[i].v >= 0
    /\ \A i \in 1..(Len(items) - 1) : items[i].v <= items[i + 1].v

AllZero(items) == \A i \in 1..Len(items) : items[i].v = 0

FirstOfMonth(d) == Date(d.year, d.month, 1)
LastOfMonth(d) == Date(d.year, d.month, DaysInMonth(d.year, d.month))
FirstOfPreviousMonth(d) ==
    IF d.month = 1 THEN Date(d.year - 1, 12, 1) ELSE Date(d.year, d.month - 1, 1)
EarlierOf(a, b) == IF DateLE(a, b) THEN a ELSE b

\* The Monday on or before d
MondayOnOrBefore(d) ==
    CHOOSE s \in {MinusDays(d, j) : j \in 0..6} : Weekday(s) = 0

----------------------------------------------------------------------------
\* Properties of aggregate_data

\* C1: aggregate_data has no error path: every call returns normally with all
\* five series, and with empty daily totals every series has its full date
\* coverage and only zero values.
C1_NoErrorPath ==
    pc = "done" =>
        /\ raised = "none"
        /\ SeriesNames \subseteq DOMAIN aggregates
        /\ daily_elevation = EmptyDict =>
              /\ Len(aggregates.hist_year_month) = 12
              /\ Len(aggregates.hist_last_month_day)
                     = LoopCount(FirstOfPreviousMonth(today),
                                 LastOfMonth(FirstOfPreviousMonth(today)))
              /\ Len(aggregates.cumul_year)
                     = LoopCount(Date(today.year, 1, 1), today)
              /\ Len(aggregates.cumul_month) = today.day
              /\ Len(aggregates.cumul_week) = Weekday(today) + 1
              /\ \A name \in SeriesNames : AllZero(aggregates[name])

\* C2: the keys of hist_year_month are exactly the 12 months from 11 months
\* before the reference month through the reference month, oldest first.
C2_WindowEndsAtReferenceMonth ==
    pc = "done" =>
        /\ HasSeries("hist_year_month")
        /\ Keys(aggregates.hist_year_month)
               = [i \in 1..12 |-> MonthLabel(MonthNumber(StrfYM(today)) - 12 + i)]

\* C3: hist_year_month has exactly 12 entries whose labels are consecutive
\* calendar months in increasing order.
C3_TwelveConsecutiveMonths ==
    pc = "done" =>
        /\ HasSeries("hist_year_month")
        /\ Len(aggregates.hist_year_month) = 12
        /\ \A i \in 1..11 :
              MonthNumber(aggregates.hist_year_month[i + 1].k)
                  = MonthNumber(aggregates.hist_year_month[i].k) + 1

\* C4: every entry of hist_year_month is the rounded sum of the daily totals
\* of the days of its month that are on or before the reference date.
C4_MonthBucketSums ==
    pc = "done" =>
        /\ HasSeries("hist_year_month")
        /\ \A i \in 1..Len(aggregates.hist_year_month) :
              LET e == aggregates.hist_year_month[i]
                  first == Date(e.k[1], e.k[2], 1)
              IN e.v = PyRound(WindowSum(daily_elevation, first,
                                         EarlierOf(LastOfMonth(first), today)))

\* C5: hist_last_month_day has one entry per day of the month before the
\* reference month, in order, valued with that day's rounded total or 0.
C5_LastMonthByDay ==
    pc = "done" =>
        /\ HasSeries("hist_last_month_day")
        /\ aggregates.hist_last_month_day
               = LET first == FirstOfPreviousMonth(today)
                 IN [i \in 1..DaysInMonth(first.year, first.month) |->
                        [k |-> <<first.year, first.month, i>>,
                         v |-> PyRound(Get(daily_elevation,
                                           Date(first.year, first.month, i)))]]

\* C6: cumul_year and cumul_month have one entry per day from January 1,
\* respectively the 1st of the reference month, through the reference date,
\* valued with the running sum of the unrounded daily totals, rounded when
\* emitted.
C6_CumulativeYearAndMonth ==
    pc = "done" =>
        /\ HasSeries("cumul_year")
        /\ HasSeries("cumul_month")
        /\ aggregates.cumul_year
               = RunningSeries(daily_elevation, Date(today.year, 1, 1), today)
        /\ aggregates.cumul_month
               = RunningSeries(daily_elevation, FirstOfMonth(today), today)

\* C7: cumul_week has one running-total entry per day from the Monday on or
\* before the reference date through the reference date, 1 to 7 entries,
\* days of the previous month or year included.
C7_CumulativeWeek ==
    pc = "done" =>
        /\ HasSeries("cumul_week")
        /\ Len(aggregates.cumul_week) \in 1..7
        /\ aggregates.cumul_week
               = RunningSeries(daily_elevation, MondayOnOrBefore(today), today)

\* C8: with non-negative daily totals each of cumul_year, cumul_month and
\* cumul_week is a non-decreasing sequence of non-negative values.
C8_CumulativeNonDecreasing ==
    pc = "done" =>
        \A name \in {"cumul_year", "cumul_month", "cumul_week"} :
            HasSeries(name) /\ NonDecreasing(aggregates[name])

----------------------------------------------------------------------------
\* Properties of process_activities

AcceptedCategories == {"Run", "Walk", "Hike"}

DateParses(a) ==
    /\ a.start_date_local.k = "str"
    /\ a.start_date_local.month \in 1..12
    /\ a.start_date_local.day
           \in 1..DaysInMonth(a.start_date_local.year, a.start_date_local.month)

DateOf(a) ==
    Date(a.start_date_local.year, a.start_date_local.month, a.start_date_local.day)

MeasureAbsent(a) == a.total_elevation_gain.k = "absent"
MeasureNotCoercible(a) == a.total_elevation_gain.k \in {"badstr", "none"}
MeasureParses(a) == ~MeasureNotCoercible(a)
MeasureOf(a) == IF MeasureAbsent(a) THEN 0 ELSE a.total_elevation_gain.h

Qualifies(a) ==
    a.type \in AcceptedCategories /\ DateParses(a) /\ MeasureParses(a)

\* The sum of the measures of the qualifying records among the first n that
\* fall on day d
RECURSIVE DayTotal(_, _, _)
DayTotal(acts, n, d) ==
    IF n = 0 THEN 0
    ELSE DayTotal(acts, n - 1, d)
         + (IF Qualifies(acts[n]) /\ DateOf(acts[n]) = d THEN MeasureOf(acts[n]) ELSE 0)

ExpectedTotals(acts, n) ==
    [d \in {DateOf(acts[i]) : i \in {j \in 1..n : Qualifies(acts[j])}} |->
        DayTotal(acts, n, d)]

\* C9: after any number of records, daily_elevation maps exactly the days of
\* the qualifying records processed so far to the sum of their measures
\* (other records change nothing), and process_activities returns only after
\* the last record.
C9_DailyTotals ==
    /\ daily_elevation = ExpectedTotals(activities, idx)
    /\ pc # "process" => idx = Len(activities)

\* process_activities has returned after skipping a first record whose date
\* fails to parse and then counting the record that follows it
C9_Witness ==
    /\ pc = "aggregate"
    /\ Len(activities) = 2
    /\ activities[1].type = "Run" /\ ~DateParses(activities[1])
    /\ Qualifies(activities[2]) /\ MeasureOf(activities[2]) = 3
    /\ daily_elevation = (DateOf(activities[2]) :> 3)

\* The record the loop has just taken
Taken == activities[idx + 1]

\* A step of the loop that takes an accepted record with a parseable date
TakesDatedRecord ==
    /\ pc = "process" /\ idx < Len(activities) /\ idx' = idx + 1
    /\ Taken.type \in AcceptedCategories
    /\ DateParses(Taken)

\* The step gives the record's day an entry and adds 0 to it
CountsAsZero ==
    /\ DateOf(Taken) \in DOMAIN daily_elevation'
    /\ daily_elevation'[DateOf(Taken)] = Get(daily_elevation, DateOf(Taken))
    /\ \A d \in DOMAIN daily_elevation : daily_elevation'[d] = daily_elevation[d]

\* C10 as stated: an accepted record with a parseable date whose measure is
\* absent or not coercible to a number is not skipped; its day gets an entry
\* and 0 is added to it.
C10_Original ==
    [][TakesDatedRecord /\ (MeasureAbsent(Taken) \/ MeasureNotCoercible(Taken))
           => CountsAsZero]_vars

\* C10 amended: an accepted record with a parseable date and no measure counts
\* as 0 (its day gets an entry); one whose measure is present but not
\* coercible to a number is skipped with a warning and changes no total.
C10_AbsentIsZeroNonNumericSkipped ==
    [][TakesDatedRecord =>
           /\ MeasureAbsent(Taken) => CountsAsZero /\ warnings' = warnings
           /\ MeasureNotCoercible(Taken) =>
                  daily_elevation' = daily_elevation /\ warnings' = warnings + 1]_vars

\* A record without measure has given its day an entry of 0, and the next
\* record, with a non-numeric measure on another day, has been skipped
C10_Witness ==
    /\ idx = 2
    /\ activities[1].type = "Hike" /\ DateParses(activities[1])
    /\ MeasureAbsent(activities[1])
    /\ activities[2].type = "Run" /\ DateParses(activities[2])
    /\ MeasureNotCoercible(activities[2])
    /\ DateOf(activities[2]) # DateOf(activities[1])
    /\ daily_elevation = (DateOf(activities[1]) :> 0)
    /\ warnings = 1

----------------------------------------------------------------------------
\* Repeated calls of aggregate_data

\* C11: two calls of aggregate_data with the same daily totals and reference
\* date both return a series collection, the two collections are identical
\* (same keys, order and values), and the daily totals are left as they were.
C11_SameResultTwice ==
    pc = "done2" =>
        /\ raised = "none" /\ second.raised = "none"
        /\ SeriesNames \subseteq DOMAIN aggregates
        /\ second.aggregates = aggregates
        /\ daily_elevation = ExpectedTotals(activities, Len(activities))

----------------------------------------------------------------------------
\* Properties of the main program

\* b is at least 13 calendar months before t
AtLeast13MonthsBefore(b, t) ==
    LET months == MonthNumber(StrfYM(t)) - MonthNumber(StrfYM(b))
    IN months > 13 \/ (months = 13 /\ b.day <= t.day)

\* C12: whatever the reference date, the main program computes a lookback
\* boundary that is a valid date at least 13 calendar months before the
\* reference date, so that the first day of the 12-month window of
\* hist_year_month and January 1 of the reference year are on or after it.
C12_LookbackThirteenMonths ==
    pc # "main" =>
        /\ raised # "ValueError"
        /\ LET boundary == FromTimestamp(after_timestamp)
           IN /\ AtLeast13MonthsBefore(boundary, today)
              /\ DateLE(boundary,
                        LET first == MonthLabel(MonthNumber(StrfYM(today)) - 11)
                        IN Date(first[1], first[2], 1))
              /\ DateLE(boundary, Date(today.year, 1, 1))

RECURSIVE Concat(_)
Concat(pages) ==
    IF pages = <<>> THEN <<>> ELSE Concat(SubSeq(pages, 1, Len(pages) - 1))
                                   \o pages[Len(pages)]

\* get_strava_activities has been called and is no longer in its loop
FetchEnded == requested # <<>> /\ pc # "fetch"

\* C13: the pages are requested as 1, 2, 3, ... one at a time; the request
\* that meets the first empty page or a failure is the last one; and then
\* the function returns, without raising, the concatenation in order of the
\* non-empty pages received.
C13_Pagination ==
    /\ requested = [i \in 1..Len(requested) |-> i]
    /\ activities = Concat(received)
    /\ Len(requested) = Len(received) + (IF FetchEnded THEN 1 ELSE 0)
    /\ FetchEnded => raised # "UnboundLocalError"

====
